---- MODULE Spec2Model ----
(***************************************************************************)
(* hf-scraper: the acquisition engine (internal/service/service.go, latest *)
(* revision), the status store (internal/storage/status_storage.go), the   *)
(* model store (internal/storage/mongo_storage.go) and the event broker.   *)
(*                                                                         *)
(* One daemon process runs Service.Start.  The persisted state (the model  *)
(* collection and the status document) survives a crash of the process;    *)
(* everything else is local to a run.  Every storage call and every fetch  *)
(* takes the context of Start: a call made with a cancelled context fails  *)
(* without effect, a call made with a live context succeeds or fails.      *)
(***************************************************************************)
EXTENDS Integers, Sequences, FiniteSets, TLC

\* ------------------------------------------------------------------ bounds
MaxPages == 2
\* the subscriptions a broker is checked with
MaxSubs == 3
\* the models one page of the lastModified-ordered listing holds
WatchPageSize == 1

\* --------------------------------------------------------------- constants
\* the empty string used as "no URL" (currentURL != "", NextURL == "")
EmptyURL == 0
\* the first page of /api/models?sort=createdAt&direction=1
backfillStartURL == 1

StatusNeedsBackfill == "NEEDS_BACKFILL"
StatusWatching == "WATCHING"
\* the zero value of ServiceStatus, decoded when the document has no status field
StatusUnset == ""

EventModeChange == "status:mode_change"

\* the zero time.Time{} used as benchmark when the store is empty
ZeroTime == 0

\* ------------------------------------------------------------ the catalog
HuggingFaceModel(i, t) == [id |-> i, lastModified |-> t]

\* the models the source may serve: two ids, three instants of modification
ModelIds == { "a", "b" }
Times == 1..3
Catalog == { HuggingFaceModel(i, t) : i \in ModelIds, t \in Times }

\* What one backfill page may hold: nothing, two models, a later version of
\* one of them.
PageChoices ==
  { << >>,
    << HuggingFaceModel("a", 1), HuggingFaceModel("b", 1) >>,
    << HuggingFaceModel("a", 2) >> }

\* The pagination chains of the source: page k links to page k+1, the last
\* page carries no rel="next" link.
Chains == UNION { [1..n -> PageChoices] : n \in 1..MaxPages }

\* What the first page of /api/models?sort=lastModified&direction=-1 may
\* hold: models in descending lastModified order.
WatchPages ==
  { << >>,
    << HuggingFaceModel("b", 3), HuggingFaceModel("a", 2) >>,
    << HuggingFaceModel("a", 2), HuggingFaceModel("b", 1) >> }

VARIABLES
  chain,        \* the source's creation-ordered pages (fixed for a behaviour)
  store,        \* the model collection: a set of models, one per id
  doc,          \* the status document: [exists, status, backfillCursor]
  pc,           \* where the daemon process is
  cancelled,    \* ctx.Done() is closed
  statusDoc,    \* Start: the document GetStatusDocument returned
  currentURL,   \* runBackfill: currentURL
  result,       \* the ScrapeResult of the last successful fetch
  benchmark,    \* runWatchCycle: latestKnownUpdate
  batch,        \* runWatchCycle: modelsToUpdate
  tick,         \* a tick is waiting in ticker.C
  published,    \* the events Publish was called with, in this run
  ret,          \* what Start returned: "none" (running), "nil", "error"
  \* ---- history, for stating properties
  lastOp,       \* the step taken last
  runs,         \* 1 for the first run, 2 after any restart
  storedEver,   \* pages whose bulk upsert succeeded (or that had no models)
  storedRun,    \* the same, in this run
  fetchedRun,   \* pages fetched successfully in this run
  checkpointed, \* pages whose NextURL was persisted as cursor
  pending,      \* the page stored but not checkpointed when the process died
  exhausted,    \* this run processed a page with no NextURL
  wWrites,      \* successful writes of WATCHING, over all runs (capped at 2)
  cancelSnap,   \* the persisted and published state when ctx was cancelled
  scan,         \* the page, benchmark and batch of the watch cycle's scan
  \* ---- the source, the broker, the query facade
  source,       \* the catalog the source serves now: a set of models, one per id
  subscribers,  \* Broker.subscribers: the channels, in subscription order
  response,     \* what the query facade returned last
  sent,         \* history: the last Publish, and the channels it found
  failed,       \* history: the batch of the watch cycle whose store failed last
  stopped       \* stopChan is closed (the revisions that have Service.Stop)

vars == << chain, store, doc, pc, cancelled, statusDoc, currentURL, result,
           benchmark, batch, tick, published, ret, lastOp, runs, storedEver,
           storedRun, fetchedRun, checkpointed, pending, exhausted, wWrites,
           cancelSnap, scan, source, subscribers, response, sent, failed,
           stopped >>

persisted == << chain, store, doc >>
locals == << statusDoc, currentURL, result, benchmark, batch, tick >>
history == << runs, storedEver, storedRun, fetchedRun, checkpointed, pending,
              exhausted, wWrites >>
aux == << source, response, sent, failed, stopped >>

\* ------------------------------------------------------- the status store
NoDoc == [exists |-> FALSE, status |-> StatusUnset, backfillCursor |-> EmptyURL]
NoStatusDoc == [status |-> StatusUnset, backfillCursor |-> EmptyURL]
NoResult == [Models |-> << >>, NextURL |-> EmptyURL]
NoSnap == [taken |-> FALSE]
NoScan == [taken |-> FALSE]
NoResponse == [kind |-> "none"]
NoSent == [taken |-> FALSE]
NoFailed == [taken |-> FALSE]

\* mutant: the stored document is never decoded, the default is returned
GetStatusDocumentAlwaysDefault(d) ==
  [status |-> StatusNeedsBackfill, backfillCursor |-> EmptyURL]

\* mutant: the default document is the zero value, its Status left unset
GetStatusDocumentZeroDefault(d) ==
  IF d.exists
    THEN [status |-> d.status, backfillCursor |-> d.backfillCursor]
    ELSE [status |-> StatusUnset, backfillCursor |-> EmptyURL]

\* GetStatusDocument: the stored document, or the "first run" default
GetStatusDocument(d) ==
  IF d.exists
    THEN [status |-> d.status, backfillCursor |-> d.backfillCursor]
    ELSE [status |-> StatusNeedsBackfill, backfillCursor |-> EmptyURL]

\* mutant: the write of the mode replaces the whole document (SetStatus,
\* ReplaceOne with a document that has a status only)
UpdateStatusReplaces(d, s) ==
  [exists |-> TRUE, status |-> s, backfillCursor |-> EmptyURL]

\* UpdateStatus: $set status, upsert
UpdateStatus(d, s) ==
  [exists |-> TRUE, status |-> s, backfillCursor |-> d.backfillCursor]

\* UpdateBackfillCursor: $set backfillCursor, upsert
UpdateBackfillCursor(d, url) ==
  [exists |-> TRUE, status |-> d.status, backfillCursor |-> url]

\* -------------------------------------------------------- the model store
\* mutant: an insert that leaves an existing document alone
UpsertInsertOnly(s, m) ==
  IF \E r \in s : r.id = m.id THEN s ELSE s \cup { m }

\* Upsert: ReplaceOne by _id with upsert
Upsert(s, m) == { r \in s : r.id # m.id } \cup { m }

RECURSIVE UpsertAll(_, _)
UpsertAll(s, ms) ==
  IF ms = << >> THEN s ELSE UpsertAll(Upsert(s, Head(ms)), Tail(ms))

\* BulkUpsert, all writes applied
BulkUpsert(s, ms) == UpsertAll(s, ms)

\* The stores an unordered BulkWrite that returns an error may leave: any
\* subset of the replacements applied.
BulkUpsertPartial(s, ms) ==
  { { r \in s : \A i \in I : ms[i].id # r.id } \cup { ms[i] : i \in I } :
      I \in { J \in SUBSET (1..Len(ms)) :
                \A i, j \in J : i # j => ms[i].id # ms[j].id } }

Max(S) == CHOOSE x \in S : \A y \in S : y <= x

\* FindMostRecentlyModified: the lastModified of the newest model, or the
\* zero time when the collection is empty
LatestKnownUpdate(s) ==
  IF s = {} THEN ZeroTime ELSE Max({ r.lastModified : r \in s })

\* ------------------------------------------------------------ the scraper
\* FetchModels on a backfill URL: the page and the rel="next" link
FetchModels(url) ==
  [Models |-> chain[url],
   NextURL |-> IF url < Len(chain) THEN url + 1 ELSE EmptyURL]

\* mutant: the scan also takes a model as old as the benchmark
RECURSIVE ModelsToUpdateNotBefore(_, _)
ModelsToUpdateNotBefore(ms, b) ==
  IF ms = << >> THEN << >>
  ELSE IF Head(ms).lastModified >= b
         THEN << Head(ms) >> \o ModelsToUpdateNotBefore(Tail(ms), b)
         ELSE << >>

\* runWatchCycle's scan: the prefix of the page newer than the benchmark
RECURSIVE ModelsToUpdate(_, _)
ModelsToUpdate(ms, b) ==
  IF ms = << >> THEN << >>
  ELSE IF Head(ms).lastModified > b
         THEN << Head(ms) >> \o ModelsToUpdate(Tail(ms), b)
         ELSE << >>

\* --------------------------------------------------------- the event broker
\* make(chan Event, 1): what a subscriber's channel buffers
ChanCap == 1

Event(topic, data) == [Topic |-> topic, Data |-> data]

\* mutant: the channels are unbuffered, a send with no receiver waiting takes
\* the default case
PublishUnbuffered(subs, topic, data) == subs

\* mutant: the event is sent to the channels of every topic
PublishToAll(subs, topic, data) ==
  [i \in 1..Len(subs) |->
     IF Len(subs[i].buf) < ChanCap
       THEN [subs[i] EXCEPT !.buf = Append(@, Event(topic, data))]
       ELSE subs[i]]

\* Broker.Publish: a non-blocking send to every channel of the topic; a
\* channel whose buffer is full takes nothing (select ... default)
Publish(subs, topic, data) ==
  [i \in 1..Len(subs) |->
     IF subs[i].topic = topic /\ Len(subs[i].buf) < ChanCap
       THEN [subs[i] EXCEPT !.buf = Append(@, Event(topic, data))]
       ELSE subs[i]]

\* the topics and payloads of the broker's clients
Topics == { EventModeChange, "status:other" }
EventData == { StatusWatching, StatusNeedsBackfill }

\* ------------------------------------------------------------- the source
\* the catalog behind a chain of pages: the newest version of every model
CatalogOf(c) ==
  LET all == UNION { { c[p][i] : i \in 1..Len(c[p]) } : p \in 1..Len(c) }
  IN { r \in all : \A q \in all : q.id = r.id => q.lastModified <= r.lastModified }

\* What the first page of /api/models?sort=lastModified&direction=-1 holds
\* for a catalog: its WatchPageSize newest models, newest first (models of
\* the same instant in either order).
FirstPages(src) ==
  LET n == IF Cardinality(src) < WatchPageSize
             THEN Cardinality(src) ELSE WatchPageSize
  IN { p \in [1..n -> src] :
         /\ \A i, j \in 1..n :
              i < j => (p[i] # p[j] /\ p[i].lastModified >= p[j].lastModified)
         /\ \A r \in src :
              (\A i \in 1..n : p[i] # r) =>
                \A i \in 1..n : r.lastModified <= p[i].lastModified }

\* ------------------------------------------------------------------- Init
\* the state after construction, for a source whose chain of pages is c
InitFor(c) ==
  /\ chain = c
  /\ store = {}
  /\ doc = NoDoc
  /\ pc = "start"
  /\ cancelled = FALSE
  /\ statusDoc = NoStatusDoc
  /\ currentURL = EmptyURL
  /\ result = NoResult
  /\ benchmark = ZeroTime
  /\ batch = << >>
  /\ tick = FALSE
  /\ published = << >>
  /\ ret = "none"
  /\ lastOp = "init"
  /\ runs = 1
  /\ storedEver = {}
  /\ storedRun = {}
  /\ fetchedRun = {}
  /\ checkpointed = {}
  /\ pending = EmptyURL
  /\ exhausted = FALSE
  /\ wWrites = 0
  /\ cancelSnap = NoSnap
  /\ scan = NoScan
  /\ source = CatalogOf(chain)
  /\ subscribers = << >>
  /\ response = NoResponse
  /\ sent = NoSent
  /\ failed = NoFailed
  /\ stopped = FALSE

Init == \E c \in Chains : InitFor(c)

\* mutant: Start runs the backfill whatever the status
StartBranchAlwaysBackfill(sd) == "bf_init"

\* ----------------------------------------------------------- Service.Start
\* Start's branch on the status it read
StartBranch(sd) ==
  IF sd.status = StatusNeedsBackfill THEN "bf_init" ELSE "w_first"

\* GetStatusDocument succeeds: Start branches on statusDoc.Status
StartRead ==
  /\ pc = "start"
  /\ ~cancelled
  /\ statusDoc' = GetStatusDocument(doc)
  /\ pc' = StartBranch(statusDoc')
  /\ lastOp' = "StartRead"
  /\ scan' = NoScan
  /\ UNCHANGED << persisted, cancelled, currentURL, result, benchmark, batch,
                  tick, published, ret, history, cancelSnap, aux,
                  subscribers >>

\* GetStatusDocument fails: Start returns the error
StartReadFail ==
  /\ pc = "start"
  /\ pc' = "returned"
  /\ ret' = "error"
  /\ lastOp' = "StartReadFail"
  /\ scan' = NoScan
  /\ UNCHANGED << persisted, cancelled, locals, published, history,
                  cancelSnap, aux,
                  subscribers >>

\* mutant: the error of runBackfill is logged and Start goes on to the watcher
StartBackfillErrorSwallowed ==
  /\ pc = "bf_fail"
  /\ pc' = "w_first"
  /\ lastOp' = "StartBackfillError"
  /\ scan' = NoScan
  /\ UNCHANGED << persisted, cancelled, locals, published, ret, history,
                  cancelSnap, aux,
                  subscribers >>

\* mutant: every error of runBackfill is returned, a cancellation included
StartBackfillErrorAlways ==
  /\ pc = "bf_fail"
  /\ pc' = "returned"
  /\ ret' = "error"
  /\ lastOp' = "StartBackfillError"
  /\ scan' = NoScan
  /\ UNCHANGED << persisted, cancelled, locals, published, history,
                  cancelSnap, aux,
                  subscribers >>

\* Start after runBackfill returned an error: a cancelled context is a
\* graceful shutdown, anything else is returned
StartBackfillError ==
  /\ pc = "bf_fail"
  /\ pc' = "returned"
  /\ ret' = IF cancelled THEN "nil" ELSE "error"
  /\ lastOp' = "StartBackfillError"
  /\ scan' = NoScan
  /\ UNCHANGED << persisted, cancelled, locals, published, history,
                  cancelSnap, aux,
                  subscribers >>

\* ----------------------------------------------------- Service.runBackfill
\* runBackfill's prologue with a saved cursor: resume from it
BackfillResume ==
  /\ pc = "bf_init"
  /\ statusDoc.backfillCursor # EmptyURL
  /\ currentURL' = statusDoc.backfillCursor
  /\ pc' = "bf_loop"
  /\ lastOp' = "BackfillResume"
  /\ scan' = NoScan
  /\ UNCHANGED << persisted, cancelled, statusDoc, result, benchmark, batch,
                  tick, published, ret, history, cancelSnap, aux,
                  subscribers >>

\* runBackfill's prologue without a cursor: save NEEDS_BACKFILL
BackfillFresh ==
  /\ pc = "bf_init"
  /\ statusDoc.backfillCursor = EmptyURL
  /\ ~cancelled
  /\ currentURL' = backfillStartURL
  /\ doc' = UpdateStatus(doc, StatusNeedsBackfill)
  /\ pc' = "bf_loop"
  /\ lastOp' = "BackfillFresh"
  /\ scan' = NoScan
  /\ UNCHANGED << chain, store, cancelled, statusDoc, result, benchmark,
                  batch, tick, published, ret, history, cancelSnap, aux,
                  subscribers >>

\* the same, the write failing: a warning only
BackfillFreshFail ==
  /\ pc = "bf_init"
  /\ statusDoc.backfillCursor = EmptyURL
  /\ currentURL' = backfillStartURL
  /\ pc' = "bf_loop"
  /\ lastOp' = "BackfillFreshFail"
  /\ scan' = NoScan
  /\ UNCHANGED << persisted, cancelled, statusDoc, result, benchmark, batch,
                  tick, published, ret, history, cancelSnap, aux,
                  subscribers >>

\* the loop's select: ctx.Done() is closed, runBackfill returns ctx.Err()
BackfillCancelled ==
  /\ pc = "bf_loop"
  /\ cancelled
  /\ pc' = "bf_fail"
  /\ lastOp' = "BackfillCancelled"
  /\ scan' = NoScan
  /\ UNCHANGED << persisted, cancelled, locals, published, ret, history,
                  cancelSnap, aux,
                  subscribers >>

\* mutant: a page without models ends the backfill (the page-counter
\* revision's "no more models found")
AfterFetchEmptyEnds(r) == IF Len(r.Models) > 0 THEN "bf_store" ELSE "bf_done"

\* where the loop goes after a successful fetch: a page without models
\* skips the bulk upsert
AfterFetch(r) == IF Len(r.Models) > 0 THEN "bf_store" ELSE "bf_cursor"

\* mutant: the cursor is saved as soon as the page is fetched, before its
\* models are stored
BackfillFetchCheckpointFirst ==
  /\ pc = "bf_loop"
  /\ ~cancelled
  /\ result' = FetchModels(currentURL)
  /\ doc' = UpdateBackfillCursor(doc, result'.NextURL)
  /\ pc' = AfterFetch(result')
  /\ fetchedRun' = fetchedRun \cup { currentURL }
  /\ storedRun' = IF Len(result'.Models) = 0
                    THEN storedRun \cup { currentURL } ELSE storedRun
  /\ storedEver' = IF Len(result'.Models) = 0
                     THEN storedEver \cup { currentURL } ELSE storedEver
  /\ lastOp' = "BackfillFetch"
  /\ scan' = NoScan
  /\ UNCHANGED << chain, store, cancelled, statusDoc, currentURL, benchmark,
                  batch, tick, published, ret, runs, checkpointed, pending,
                  exhausted, wWrites, cancelSnap, aux,
                  subscribers >>

\* the loop's default branch, FetchModels succeeding
BackfillFetch ==
  /\ pc = "bf_loop"
  /\ ~cancelled
  /\ result' = FetchModels(currentURL)
  /\ pc' = AfterFetch(result')
  /\ fetchedRun' = fetchedRun \cup { currentURL }
  /\ storedRun' = IF Len(result'.Models) = 0
                    THEN storedRun \cup { currentURL } ELSE storedRun
  /\ storedEver' = IF Len(result'.Models) = 0
                     THEN storedEver \cup { currentURL } ELSE storedEver
  /\ lastOp' = "BackfillFetch"
  /\ scan' = NoScan
  /\ UNCHANGED << persisted, cancelled, statusDoc, currentURL, benchmark,
                  batch, tick, published, ret, runs, checkpointed, pending,
                  exhausted, wWrites, cancelSnap, aux,
                  subscribers >>

\* mutant: a fetch error ends the loop
BackfillFetchFailBreak ==
  /\ pc = "bf_loop"
  /\ ~cancelled
  /\ pc' = "bf_done"
  /\ lastOp' = "BackfillFetchFail"
  /\ scan' = NoScan
  /\ UNCHANGED << persisted, cancelled, locals, published, ret, history,
                  cancelSnap, aux,
                  subscribers >>

\* mutant: a page whose fetch failed is skipped
BackfillFetchFailAdvances ==
  /\ pc = "bf_loop"
  /\ currentURL' = IF currentURL < Len(chain) THEN currentURL + 1
                   ELSE EmptyURL
  /\ pc' = "bf_sleep"
  /\ lastOp' = "BackfillFetchFail"
  /\ scan' = NoScan
  /\ UNCHANGED << persisted, cancelled, statusDoc, result, benchmark, batch,
                  tick, published, ret, history, cancelSnap, aux,
                  subscribers >>

\* mutant: a fetch error is returned to Start
BackfillFetchFailEscalates ==
  /\ pc = "bf_loop"
  /\ pc' = "bf_fail"
  /\ lastOp' = "BackfillFetchFail"
  /\ scan' = NoScan
  /\ UNCHANGED << persisted, cancelled, locals, published, ret, history,
                  cancelSnap, aux, subscribers >>

\* FetchModels failing: sleep, then the same URL again
BackfillFetchFail ==
  /\ pc = "bf_loop"
  /\ ~cancelled
  /\ pc' = "bf_sleep"
  /\ lastOp' = "BackfillFetchFail"
  /\ scan' = NoScan
  /\ UNCHANGED << persisted, cancelled, locals, published, ret, history,
                  cancelSnap, aux,
                  subscribers >>

\* mutant: after a failure the loop gives up, the sleep never returns
BackfillSleepGivesUp ==
  /\ pc = "bf_sleep"
  /\ pc' = "bf_sleep"
  /\ lastOp' = "BackfillSleepDone"
  /\ scan' = NoScan
  /\ UNCHANGED << persisted, cancelled, locals, published, ret, history,
                  cancelSnap, aux, subscribers >>

\* time.Sleep returns; the for condition is evaluated
BackfillSleepDone ==
  /\ pc = "bf_sleep"
  /\ pc' = IF currentURL = EmptyURL THEN "bf_done" ELSE "bf_loop"
  /\ lastOp' = "BackfillSleepDone"
  /\ scan' = NoScan
  /\ UNCHANGED << persisted, cancelled, locals, published, ret, history,
                  cancelSnap, aux,
                  subscribers >>

\* BulkUpsert of the page succeeds
BackfillStore ==
  /\ pc = "bf_store"
  /\ ~cancelled
  /\ store' = BulkUpsert(store, result.Models)
  /\ pc' = "bf_cursor"
  /\ storedRun' = storedRun \cup { currentURL }
  /\ storedEver' = storedEver \cup { currentURL }
  /\ lastOp' = "BackfillStore"
  /\ scan' = NoScan
  /\ UNCHANGED << chain, doc, cancelled, locals, published, ret, runs,
                  fetchedRun, checkpointed, pending, exhausted, wWrites,
                  cancelSnap, aux,
                  subscribers >>

\* mutant: the bulk upsert error is logged without "continue": the cursor is
\* written next
BackfillStoreFailNoRetry ==
  /\ pc = "bf_store"
  /\ store' \in (IF cancelled THEN { store }
                 ELSE BulkUpsertPartial(store, result.Models))
  /\ pc' = "bf_cursor"
  /\ lastOp' = "BackfillStoreFail"
  /\ scan' = NoScan
  /\ UNCHANGED << chain, doc, cancelled, locals, published, ret, history,
                  cancelSnap, aux,
                  subscribers >>

\* BulkUpsert fails (some of the writes may have been applied): sleep, then
\* continue with the same URL
BackfillStoreFail ==
  /\ pc = "bf_store"
  /\ store' \in (IF cancelled THEN { store }
                 ELSE BulkUpsertPartial(store, result.Models))
  /\ result' = NoResult
  /\ pc' = "bf_sleep"
  /\ lastOp' = "BackfillStoreFail"
  /\ scan' = NoScan
  /\ UNCHANGED << chain, doc, cancelled, statusDoc, currentURL, benchmark,
                  batch, tick, published, ret, history, cancelSnap, aux,
                  subscribers >>

\* UpdateBackfillCursor(result.NextURL) succeeds; currentURL = result.NextURL
BackfillCursor ==
  /\ pc = "bf_cursor"
  /\ ~cancelled
  /\ doc' = UpdateBackfillCursor(doc, result.NextURL)
  /\ currentURL' = result.NextURL
  /\ result' = NoResult
  /\ pc' = IF result.NextURL = EmptyURL THEN "bf_done" ELSE "bf_loop"
  /\ checkpointed' = checkpointed \cup { currentURL }
  /\ exhausted' = (exhausted \/ result.NextURL = EmptyURL)
  /\ lastOp' = "BackfillCursor"
  /\ scan' = NoScan
  /\ UNCHANGED << chain, store, cancelled, statusDoc, benchmark, batch, tick,
                  published, ret, runs, storedEver, storedRun, fetchedRun,
                  pending, wWrites, cancelSnap, aux,
                  subscribers >>

\* UpdateBackfillCursor fails: logged, sleep, currentURL = result.NextURL
BackfillCursorFail ==
  /\ pc = "bf_cursor"
  /\ currentURL' = result.NextURL
  /\ result' = NoResult
  /\ pc' = "bf_sleep"
  /\ exhausted' = (exhausted \/ result.NextURL = EmptyURL)
  /\ lastOp' = "BackfillCursorFail"
  /\ scan' = NoScan
  /\ UNCHANGED << persisted, cancelled, statusDoc, benchmark, batch, tick,
                  published, ret, runs, storedEver, storedRun, fetchedRun,
                  checkpointed, pending, wWrites, cancelSnap, aux,
                  subscribers >>

\* after the loop: UpdateStatus(WATCHING) succeeds
BackfillMarkWatching ==
  /\ pc = "bf_done"
  /\ ~cancelled
  /\ doc' = UpdateStatus(doc, StatusWatching)
  /\ pc' = "bf_publish"
  /\ wWrites' = IF wWrites < 2 THEN wWrites + 1 ELSE wWrites
  /\ lastOp' = "BackfillMarkWatching"
  /\ scan' = NoScan
  /\ UNCHANGED << chain, store, cancelled, locals, published, ret, runs,
                  storedEver, storedRun, fetchedRun, checkpointed, pending,
                  exhausted, cancelSnap, aux,
                  subscribers >>

\* mutant: the event is published although the write of WATCHING failed
BackfillMarkWatchingFailPublishes ==
  /\ pc = "bf_done"
  /\ published' = Append(published,
                         [Topic |-> EventModeChange, Data |-> StatusWatching])
  /\ subscribers' = Publish(subscribers, EventModeChange, StatusWatching)
  /\ sent' = [taken |-> TRUE, before |-> subscribers,
               event |-> Event(EventModeChange, StatusWatching)]
  /\ scan' = NoScan
  /\ pc' = "bf_fail"
  /\ lastOp' = "BackfillMarkWatchingFail"
  /\ UNCHANGED << persisted, cancelled, locals, ret, history, cancelSnap, source,
                  response, failed, stopped >>

\* UpdateStatus(WATCHING) fails: runBackfill returns the error
BackfillMarkWatchingFail ==
  /\ pc = "bf_done"
  /\ pc' = "bf_fail"
  /\ lastOp' = "BackfillMarkWatchingFail"
  /\ scan' = NoScan
  /\ UNCHANGED << persisted, cancelled, locals, published, ret, history,
                  cancelSnap, aux,
                  subscribers >>

\* broker.Publish(EventModeChange, StatusWatching); runBackfill returns nil
BackfillPublish ==
  /\ pc = "bf_publish"
  /\ published' = Append(published,
                         [Topic |-> EventModeChange, Data |-> StatusWatching])
  /\ subscribers' = Publish(subscribers, EventModeChange, StatusWatching)
  /\ sent' = [taken |-> TRUE, before |-> subscribers,
               event |-> Event(EventModeChange, StatusWatching)]
  /\ scan' = NoScan
  /\ pc' = "w_first"
  /\ lastOp' = "BackfillPublish"
  /\ UNCHANGED << persisted, cancelled, locals, ret, history, cancelSnap, source,
                  response, failed, stopped >>

\* ---------------------------------------------------- Service.startWatcher
WatcherPcs == { "wc_find", "wc_fetch", "wc_store", "w_wait" }

\* mutant: the watcher waits for the first tick before its first cycle
WatcherStartWaits ==
  /\ pc = "w_first"
  /\ tick' = FALSE
  /\ pc' = "w_wait"
  /\ lastOp' = "WatcherStart"
  /\ scan' = NoScan
  /\ UNCHANGED << persisted, cancelled, statusDoc, currentURL, result,
                  benchmark, batch, published, ret, history, cancelSnap, aux,
                  subscribers >>

\* startWatcher: the ticker is created and the first cycle runs at once
WatcherStart ==
  /\ pc = "w_first"
  /\ tick' = FALSE
  /\ pc' = "wc_find"
  /\ lastOp' = "WatcherStart"
  /\ scan' = NoScan
  /\ UNCHANGED << persisted, cancelled, statusDoc, currentURL, result,
                  benchmark, batch, published, ret, history, cancelSnap, aux,
                  subscribers >>

\* the select between two cycles takes the tick: the next cycle runs
WatchTick ==
  /\ pc = "w_wait"
  /\ tick
  /\ tick' = FALSE
  /\ pc' = "wc_find"
  /\ lastOp' = "WatchTick"
  /\ scan' = NoScan
  /\ UNCHANGED << persisted, cancelled, statusDoc, currentURL, result,
                  benchmark, batch, published, ret, history, cancelSnap, aux,
                  subscribers >>

\* the select between two cycles takes ctx.Done(): startWatcher returns and
\* Start returns nil
WatchStopped ==
  /\ pc = "w_wait"
  /\ cancelled
  /\ pc' = "returned"
  /\ ret' = "nil"
  /\ lastOp' = "WatchStopped"
  /\ scan' = NoScan
  /\ UNCHANGED << persisted, cancelled, locals, published, history,
                  cancelSnap, aux,
                  subscribers >>

\* --------------------------------------------------- Service.runWatchCycle
\* FindMostRecentlyModified succeeds: the benchmark of the cycle
WatchFind ==
  /\ pc = "wc_find"
  /\ ~cancelled
  /\ benchmark' = LatestKnownUpdate(store)
  /\ pc' = "wc_fetch"
  /\ lastOp' = "WatchFind"
  /\ scan' = NoScan
  /\ UNCHANGED << persisted, cancelled, statusDoc, currentURL, result, batch,
                  tick, published, ret, history, cancelSnap, aux,
                  subscribers >>

\* FindMostRecentlyModified fails: the cycle ends
WatchFindFail ==
  /\ pc = "wc_find"
  /\ pc' = "w_wait"
  /\ lastOp' = "WatchFindFail"
  /\ scan' = NoScan
  /\ UNCHANGED << persisted, cancelled, locals, published, ret, history,
                  cancelSnap, aux,
                  subscribers >>

\* FetchModels(watchStartURL) succeeds: the scan collects modelsToUpdate
WatchFetch ==
  /\ pc = "wc_fetch"
  /\ ~cancelled
  /\ \E page \in WatchPages :
       /\ batch' = ModelsToUpdate(page, benchmark)
       /\ scan' = [taken |-> TRUE, page |-> page, benchmark |-> benchmark,
                    batch |-> batch', store |-> store, failed |-> failed]
  /\ failed' = NoFailed
  /\ benchmark' = ZeroTime
  /\ pc' = IF Len(batch') > 0 THEN "wc_store" ELSE "w_wait"
  /\ lastOp' = "WatchFetch"
  /\ UNCHANGED << persisted, cancelled, statusDoc, currentURL, result, tick,
                  published, ret, history, cancelSnap, source, response, sent,
                  subscribers, stopped >>

\* mutant: a fetch error of the watch cycle ends the watcher and Start
WatchFetchFailEscalates ==
  /\ pc = "wc_fetch"
  /\ benchmark' = ZeroTime
  /\ pc' = "returned"
  /\ ret' = "error"
  /\ lastOp' = "WatchFetchFail"
  /\ scan' = NoScan
  /\ UNCHANGED << persisted, cancelled, statusDoc, currentURL, result, batch,
                  tick, published, history, cancelSnap, aux, subscribers >>

\* FetchModels(watchStartURL) fails: the cycle ends
WatchFetchFail ==
  /\ pc = "wc_fetch"
  /\ benchmark' = ZeroTime
  /\ pc' = "w_wait"
  /\ lastOp' = "WatchFetchFail"
  /\ scan' = NoScan
  /\ UNCHANGED << persisted, cancelled, statusDoc, currentURL, result, batch,
                  tick, published, ret, history, cancelSnap, aux,
                  subscribers >>

\* BulkUpsert(modelsToUpdate) succeeds
WatchStore ==
  /\ pc = "wc_store"
  /\ ~cancelled
  /\ store' = BulkUpsert(store, batch)
  /\ batch' = << >>
  /\ pc' = "w_wait"
  /\ lastOp' = "WatchStore"
  /\ UNCHANGED << chain, doc, cancelled, statusDoc, currentURL, result,
                  benchmark, tick, published, ret, history, cancelSnap, scan,
                  aux, subscribers >>

\* BulkUpsert(modelsToUpdate) fails: logged, the cycle ends
WatchStoreFail ==
  /\ pc = "wc_store"
  /\ store' \in (IF cancelled THEN { store }
                 ELSE BulkUpsertPartial(store, batch))
  /\ batch' = << >>
  /\ pc' = "w_wait"
  /\ lastOp' = "WatchStoreFail"
  /\ scan' = NoScan
  /\ UNCHANGED << chain, doc, cancelled, statusDoc, currentURL, result,
                  benchmark, tick, published, ret, history, cancelSnap, aux,
                  subscribers >>

\* --------------------------------------------------------- the environment
\* the ticker fires while the watcher lives (ticker.C buffers one tick)
Tick ==
  /\ pc \in WatcherPcs
  /\ ~tick
  /\ tick' = TRUE
  /\ UNCHANGED << persisted, pc, cancelled, statusDoc, currentURL, result,
                  benchmark, batch, published, ret, lastOp, history,
                  cancelSnap, scan, aux, subscribers >>

\* main cancels the context of Start (shutdown signal)
Cancel ==
  /\ ~cancelled
  /\ pc # "returned"
  /\ cancelled' = TRUE
  /\ cancelSnap' = [taken |-> TRUE, pc |-> pc, doc |-> doc,
                    published |-> published]
  /\ UNCHANGED << persisted, pc, locals, published, ret, lastOp, history,
                  scan, aux, subscribers >>

\* the process dies at any point, or has returned, and the daemon is started
\* again: the persisted state is all that is left
Crash ==
  /\ pc' = "start"
  /\ cancelled' = FALSE
  /\ statusDoc' = NoStatusDoc
  /\ currentURL' = EmptyURL
  /\ result' = NoResult
  /\ benchmark' = ZeroTime
  /\ batch' = << >>
  /\ tick' = FALSE
  /\ published' = << >>
  /\ ret' = "none"
  /\ lastOp' = "Crash"
  /\ runs' = 2
  /\ storedRun' = {}
  /\ fetchedRun' = {}
  /\ exhausted' = FALSE
  /\ pending' = IF pc = "bf_cursor" THEN currentURL ELSE EmptyURL
  /\ cancelSnap' = NoSnap
  /\ scan' = NoScan
  /\ subscribers' = << >>
  /\ response' = NoResponse
  /\ sent' = NoSent
  /\ failed' = NoFailed
  /\ stopped' = FALSE
  /\ UNCHANGED << persisted, storedEver, checkpointed, wWrites, source >>

Next ==
  \/ StartRead \/ StartReadFail \/ StartBackfillError
  \/ BackfillResume \/ BackfillFresh \/ BackfillFreshFail
  \/ BackfillCancelled \/ BackfillFetch \/ BackfillFetchFail
  \/ BackfillSleepDone \/ BackfillStore \/ BackfillStoreFail
  \/ BackfillCursor \/ BackfillCursorFail
  \/ BackfillMarkWatching \/ BackfillMarkWatchingFail \/ BackfillPublish
  \/ WatcherStart \/ WatchTick \/ WatchStopped
  \/ WatchFind \/ WatchFindFail \/ WatchFetch \/ WatchFetchFail
  \/ WatchStore \/ WatchStoreFail
  \/ Tick \/ Cancel \/ Crash

Spec == Init /\ [][Next]_vars

\* ------------------------------------------------- the broker and its clients
\* Broker.Subscribe: a new buffered channel is appended to the topic's list
BrokerSubscribe ==
  /\ Len(subscribers) < MaxSubs
  /\ \E topic \in Topics :
       subscribers' = Append(subscribers, [topic |-> topic, buf |-> << >>])
  /\ sent' = NoSent
  /\ UNCHANGED << persisted, pc, cancelled, locals, published, ret, lastOp,
                  history, cancelSnap, scan, source, response, failed, stopped >>

\* mutant: a blocking send, ch <- event without the default case
BrokerPublishBlocking ==
  /\ \E topic \in Topics, data \in EventData :
       /\ \A i \in 1..Len(subscribers) :
            subscribers[i].topic = topic => Len(subscribers[i].buf) < ChanCap
       /\ subscribers' = Publish(subscribers, topic, data)
       /\ sent' = [taken |-> TRUE, before |-> subscribers,
                    event |-> Event(topic, data)]
  /\ UNCHANGED << persisted, pc, cancelled, locals, published, ret, lastOp,
                  history, cancelSnap, scan, source, response, failed, stopped >>

\* Broker.Publish called by any publisher, with the channels in any state
BrokerPublish ==
  /\ \E topic \in Topics, data \in EventData :
       /\ subscribers' = Publish(subscribers, topic, data)
       /\ sent' = [taken |-> TRUE, before |-> subscribers,
                    event |-> Event(topic, data)]
  /\ UNCHANGED << persisted, pc, cancelled, locals, published, ret, lastOp,
                  history, cancelSnap, scan, source, response, failed, stopped >>

\* a subscriber receives from its channel
BrokerReceive ==
  /\ \E i \in 1..Len(subscribers) :
       /\ Len(subscribers[i].buf) > 0
       /\ subscribers' = [subscribers EXCEPT ![i].buf = Tail(@)]
  /\ sent' = NoSent
  /\ UNCHANGED << persisted, pc, cancelled, locals, published, ret, lastOp,
                  history, cancelSnap, scan, source, response, failed, stopped >>

BrokerInit == Init /\ chain = << << >> >>

BrokerNext == BrokerSubscribe \/ BrokerPublish \/ BrokerReceive

BrokerSpec == BrokerInit /\ [][BrokerNext]_vars

\* ------------------------------------------- the model store and its callers
\* the collections the store may hold: at most one document per _id
Stores == { s \in SUBSET Catalog : \A r, q \in s : r.id = q.id => r = q }

\* the lists of models with pairwise distinct ids
DistinctKeyLists ==
  { << m >> : m \in Catalog } \cup
  { ms \in Catalog \X Catalog : ms[1].id # ms[2].id }

\* MongoModelStorage.Upsert called with any model on any collection
StoreUpsert ==
  /\ \E m \in Catalog :
       /\ store' = Upsert(store, m)
       /\ scan' = [taken |-> TRUE, page |-> << m >>, benchmark |-> ZeroTime,
                    batch |-> << m >>, store |-> store]
  /\ lastOp' = "StoreUpsert"
  /\ UNCHANGED << chain, doc, pc, cancelled, locals, published, ret, history,
                  cancelSnap, aux, subscribers >>

\* MongoModelStorage.BulkUpsert called with any list of distinct ids
StoreBulkUpsert ==
  /\ \E ms \in DistinctKeyLists :
       /\ store' = BulkUpsert(store, ms)
       /\ scan' = [taken |-> TRUE, page |-> ms, benchmark |-> ZeroTime,
                    batch |-> ms, store |-> store]
  /\ lastOp' = "StoreBulkUpsert"
  /\ UNCHANGED << chain, doc, pc, cancelled, locals, published, ret, history,
                  cancelSnap, aux, subscribers >>

StoreInit == Init /\ chain = << << >> >>

StoreNext == StoreUpsert \/ StoreBulkUpsert

StoreSpec == StoreInit /\ [][StoreNext]_vars

\* ------------------------------------------------------- the query facade
\* what a search may ask for: everything, or the ids matching a pattern
Queries == { "", "a" }

\* the case-insensitive regex on _id, for ids of one letter
Matches(id, q) == q = "" \/ q = id

\* FindByID: the document with that _id, or nil when there is none
FindByID(s, id) ==
  IF \E r \in s : r.id = id
    THEN [kind |-> "model", model |-> CHOOSE r \in s : r.id = id]
    ELSE [kind |-> "nil"]

\* mutant: a lookup that misses stores a placeholder for the id
GetModelByIDReadThrough ==
  /\ \E id \in ModelIds :
       /\ response' = FindByID(store, id)
       /\ store' = IF response'.kind = "nil"
                     THEN Upsert(store, HuggingFaceModel(id, ZeroTime))
                     ELSE store
  /\ UNCHANGED << chain, doc, pc, cancelled, locals, published, ret, lastOp,
                  history, cancelSnap, scan, source, subscribers, sent,
                  failed, stopped >>

\* Service.GetModelByID, called by the delivery layer at any time: it
\* returns what FindByID returns, or its error
GetModelByID ==
  /\ \E id \in ModelIds :
       response' \in { FindByID(store, id), [kind |-> "error"] }
  /\ UNCHANGED << persisted, pc, cancelled, locals, published, ret, lastOp,
                  history, cancelSnap, scan, source, subscribers, sent,
                  failed, stopped >>

\* SearchModels, called by the delivery layer at any time: the matching
\* documents (a page that holds them all) and their count, or an error
SearchModels ==
  /\ \E q \in Queries :
       response' \in
         { [kind |-> "models",
            models |-> { r \in store : Matches(r.id, q) },
            total |-> Cardinality({ r \in store : Matches(r.id, q) })],
           [kind |-> "error"] }
  /\ UNCHANGED << persisted, pc, cancelled, locals, published, ret, lastOp,
                  history, cancelSnap, scan, source, subscribers, sent,
                  failed, stopped >>

\* the daemon over a chain of two pages, with the delivery layer querying
FacadeInit ==
  Init /\ chain = << << HuggingFaceModel("a", 1), HuggingFaceModel("b", 1) >>,
                     << HuggingFaceModel("a", 2) >> >>

FacadeNext == Next \/ GetModelByID \/ SearchModels

FacadeSpec == FacadeInit /\ [][FacadeNext]_vars

\* ------------------------------------------- the daemon and a live source
\* a model of the catalog is modified: it gets the newest lastModified, in
\* the creation-ordered listing it stays where it was
SourceChange ==
  /\ source # {}
  /\ LatestKnownUpdate(source) < Max(Times)
  /\ \E id \in { r.id : r \in source } :
       LET m == HuggingFaceModel(id, LatestKnownUpdate(source) + 1) IN
         /\ source' = Upsert(source, m)
         /\ chain' = [p \in 1..Len(chain) |->
                        [i \in 1..Len(chain[p]) |->
                           IF chain[p][i].id = id THEN m ELSE chain[p][i]]]
  /\ lastOp' = "SourceChange"
  /\ UNCHANGED << store, doc, pc, cancelled, locals, published, ret, history,
                  cancelSnap, scan, subscribers, response, sent, failed, stopped >>

\* FetchModels(watchStartURL) succeeds on the catalog as it is now: the scan
\* collects modelsToUpdate
WatchFetchSource ==
  /\ pc = "wc_fetch"
  /\ ~cancelled
  /\ \E page \in FirstPages(source) :
       /\ batch' = ModelsToUpdate(page, benchmark)
       /\ scan' = [taken |-> TRUE, page |-> page, benchmark |-> benchmark,
                    batch |-> batch', store |-> store, source |-> source,
                    failed |-> failed]
  /\ failed' = NoFailed
  /\ benchmark' = ZeroTime
  /\ pc' = IF Len(batch') > 0 THEN "wc_store" ELSE "w_wait"
  /\ lastOp' = "WatchFetch"
  /\ UNCHANGED << persisted, cancelled, statusDoc, currentURL, result, tick,
                  published, ret, history, cancelSnap, source, response, sent,
                  subscribers, stopped >>

\* one run of the daemon over a catalog of two models, one per page
SourceInit ==
  InitFor(<< << HuggingFaceModel("a", 1) >>, << HuggingFaceModel("b", 1) >> >>)

SourceNext ==
  \/ StartRead \/ StartReadFail \/ StartBackfillError
  \/ BackfillFresh \/ BackfillFreshFail
  \/ BackfillFetch \/ BackfillFetchFail
  \/ BackfillSleepDone \/ BackfillStore \/ BackfillStoreFail
  \/ BackfillCursor \/ BackfillCursorFail
  \/ BackfillMarkWatching \/ BackfillMarkWatchingFail \/ BackfillPublish
  \/ WatcherStart \/ WatchTick
  \/ WatchFind \/ WatchFindFail \/ WatchFetchSource \/ WatchFetchFail
  \/ WatchStore \/ WatchStoreFail
  \/ Tick \/ SourceChange

SourceSpec == SourceInit /\ [][SourceNext]_vars

\* ------------------------------------- one backfill, running to its end
\* Start and runBackfill in a process that is neither cancelled nor killed
LiveNext ==
  \/ StartRead \/ StartReadFail \/ StartBackfillError
  \/ BackfillFresh \/ BackfillFreshFail
  \/ BackfillFetch \/ BackfillFetchFail
  \/ BackfillSleepDone \/ BackfillStore \/ BackfillStoreFail
  \/ BackfillCursor \/ BackfillCursorFail
  \/ BackfillMarkWatching \/ BackfillMarkWatchingFail \/ BackfillPublish

\* The process keeps taking steps; a fetch and a bulk upsert that are
\* retried for ever succeed at some attempt; a status write that stays
\* possible succeeds.
LiveSpec ==
  /\ Init
  /\ [][LiveNext]_vars
  /\ WF_vars(LiveNext)
  /\ SF_vars(BackfillFetch)
  /\ SF_vars(BackfillStore)
  /\ WF_vars(BackfillCursor)
  /\ WF_vars(BackfillMarkWatching)

\* --------------------------------------------- the scraper and the wire
\* a JSON value of the "gated" field, and a model as the source sends it
JSONValue(type, val) == [type |-> type, val |-> val]
RawModel(i, t, gated) == [id |-> i, lastModified |-> t, gated |-> gated]

\* GatedStatus.UnmarshalJSON: one of four strings, or a boolean
GatedStatusUnmarshal(v) ==
  IF v.type = "string"
    THEN IF v.val \in { "true", "false", "auto", "manual" }
           THEN [ok |-> TRUE, val |-> v.val]
           ELSE [ok |-> FALSE]
    ELSE IF v.type = "bool"
           THEN [ok |-> TRUE, val |-> IF v.val THEN "true" ELSE "false"]
           ELSE [ok |-> FALSE]

\* json.Unmarshal(body, &models): the error of any element is the error of
\* the whole slice
UnmarshalPage(raw) ==
  IF \A i \in 1..Len(raw) : GatedStatusUnmarshal(raw[i].gated).ok
    THEN [ok |-> TRUE,
          Models |-> [i \in 1..Len(raw) |->
                        HuggingFaceModel(raw[i].id, raw[i].lastModified)]]
    ELSE [ok |-> FALSE]

\* the models of a page that decode, in the order of the page
RECURSIVE WellFormed(_)
WellFormed(raw) ==
  IF raw = << >> THEN << >>
  ELSE IF GatedStatusUnmarshal(Head(raw).gated).ok
         THEN << HuggingFaceModel(Head(raw).id, Head(raw).lastModified) >>
              \o WellFormed(Tail(raw))
         ELSE WellFormed(Tail(raw))

\* The bodies of a chain of two pages: the second holds a model whose
\* "gated" is a number.
RawChain ==
  << << RawModel("a", 1, JSONValue("bool", FALSE)) >>,
     << RawModel("b", 1, JSONValue("string", "auto")),
        RawModel("a", 2, JSONValue("number", 3)) >> >>

\* FetchModels(currentURL) succeeds: the body decoded
BackfillFetchRaw ==
  /\ pc = "bf_loop"
  /\ UnmarshalPage(RawChain[currentURL]).ok
  /\ chain[currentURL] = UnmarshalPage(RawChain[currentURL]).Models
  /\ BackfillFetch

\* the daemon against the source that sends RawChain
RawInit == InitFor([p \in 1..Len(RawChain) |-> WellFormed(RawChain[p])])

RawNext ==
  \/ StartRead \/ StartReadFail \/ StartBackfillError
  \/ BackfillResume \/ BackfillFresh \/ BackfillFreshFail
  \/ BackfillCancelled \/ BackfillFetchRaw \/ BackfillFetchFail
  \/ BackfillSleepDone \/ BackfillStore \/ BackfillStoreFail
  \/ BackfillCursor \/ BackfillCursorFail
  \/ Cancel \/ Crash

RawSpec == RawInit /\ [][RawNext]_vars

\* -------------------------------------- the decoding of the two flags
\* strconv.ParseBool: the strings it accepts
ParseBool(str) ==
  IF str \in { "1", "t", "T", "TRUE", "true", "True" }
    THEN [ok |-> TRUE, val |-> TRUE]
  ELSE IF str \in { "0", "f", "F", "FALSE", "false", "False" }
    THEN [ok |-> TRUE, val |-> FALSE]
  ELSE [ok |-> FALSE]

\* FlexibleBool.UnmarshalJSON: what json.Unmarshal takes into a bool (a
\* boolean, or null, which leaves the bool at false), or a string that
\* ParseBool accepts
FlexibleBoolUnmarshal(v) ==
  IF v.type = "bool" THEN [ok |-> TRUE, val |-> v.val]
  ELSE IF v.type = "null" THEN [ok |-> TRUE, val |-> FALSE]
  ELSE IF v.type = "string" THEN ParseBool(v.val)
  ELSE [ok |-> FALSE]

\* the JSON values a body may carry in "gated" or "private"
JSONStrings ==
  << "true", "false", "auto", "manual", "True", "TRUE", "t", "T", "1",
     "False", "FALSE", "f", "F", "0", "yes", "" >>

JSONValues ==
  << JSONValue("bool", TRUE), JSONValue("bool", FALSE),
     JSONValue("null", "null") >>
  \o [i \in 1..Len(JSONStrings) |-> JSONValue("string", JSONStrings[i])]
  \o << JSONValue("number", 0), JSONValue("number", 1) >>

\* json.Unmarshal of a model whose body carries the two flags: each field is
\* handed to its UnmarshalJSON
UnmarshalFlags ==
  /\ \E g, p \in 1..Len(JSONValues) :
       response' = [kind |-> "decoded",
                    gated |-> JSONValues[g], private |-> JSONValues[p],
                    Gated |-> GatedStatusUnmarshal(JSONValues[g]),
                    Private |-> FlexibleBoolUnmarshal(JSONValues[p])]
  /\ lastOp' = "UnmarshalFlags"
  /\ UNCHANGED << persisted, pc, cancelled, locals, published, ret, history,
                  cancelSnap, scan, source, subscribers, sent, failed, stopped >>

DecodeInit == Init /\ chain = << << >> >>

DecodeNext == UnmarshalFlags

DecodeSpec == DecodeInit /\ [][DecodeNext]_vars

\* ------------------------------------------ the backfill and its listeners
\* Start and runBackfill over a chain of two pages, cancelled or killed at
\* any point, while listeners subscribe to the broker and read from their
\* channels; runBackfill is the broker's only publisher
ListenerInit ==
  InitFor(<< << HuggingFaceModel("a", 1) >>, << HuggingFaceModel("b", 1) >> >>)

ListenerNext ==
  \/ StartRead \/ StartReadFail \/ StartBackfillError
  \/ BackfillResume \/ BackfillFresh \/ BackfillFreshFail
  \/ BackfillCancelled \/ BackfillFetch \/ BackfillFetchFail
  \/ BackfillSleepDone \/ BackfillStore \/ BackfillStoreFail
  \/ BackfillCursor \/ BackfillCursorFail
  \/ BackfillMarkWatching \/ BackfillMarkWatchingFail \/ BackfillPublish
  \/ Cancel \/ Crash
  \/ BrokerSubscribe \/ BrokerReceive

ListenerSpec == ListenerInit /\ [][ListenerNext]_vars

\* ------------------------- the revision with Service.Stop and stopChan
\* Service.Stop: close(s.stopChan)
Stop ==
  /\ ~stopped
  /\ pc # "returned"
  /\ stopped' = TRUE
  /\ UNCHANGED << persisted, pc, cancelled, locals, published, ret, lastOp,
                  history, cancelSnap, scan, source, subscribers, response,
                  sent, failed >>

\* the select between two cycles takes stopChan: startWatcher returns and
\* Start returns nil
WatchStopChan ==
  /\ pc = "w_wait"
  /\ stopped
  /\ pc' = "returned"
  /\ ret' = "nil"
  /\ lastOp' = "WatchStopChan"
  /\ scan' = NoScan
  /\ UNCHANGED << persisted, cancelled, locals, published, history,
                  cancelSnap, aux, subscribers >>

\* Start of that revision after runBackfill returned an error: the error is
\* returned, a cancellation included
StartBackfillErrorReturned ==
  /\ pc = "bf_fail"
  /\ pc' = "returned"
  /\ ret' = "error"
  /\ lastOp' = "StartBackfillError"
  /\ scan' = NoScan
  /\ UNCHANGED << persisted, cancelled, locals, published, history,
                  cancelSnap, aux, subscribers >>

\* one run of that revision over a chain of two pages; main cancels the
\* context and calls Stop (the failures of single upserts of the backfill,
\* which are logged only, are left out)
StopInit ==
  InitFor(<< << HuggingFaceModel("a", 1), HuggingFaceModel("b", 1) >>,
             << HuggingFaceModel("a", 2) >> >>)

StopNext ==
  \/ StartRead \/ StartReadFail \/ StartBackfillErrorReturned
  \/ BackfillFresh \/ BackfillFreshFail
  \/ BackfillCancelled \/ BackfillFetch \/ BackfillFetchFail
  \/ BackfillSleepDone \/ BackfillStore
  \/ BackfillCursor \/ BackfillCursorFail
  \/ BackfillMarkWatching \/ BackfillMarkWatchingFail \/ BackfillPublish
  \/ WatcherStart \/ WatchTick \/ WatchStopped \/ WatchStopChan
  \/ WatchFind \/ WatchFindFail \/ WatchFetch \/ WatchFetchFail
  \/ WatchStore \/ WatchStoreFail
  \/ Tick \/ Cancel \/ Stop

StopSpec == StopInit /\ [][StopNext]_vars

\* ------------------------------------ the watcher and its failed cycles
\* BulkUpsert(modelsToUpdate) fails: logged, the cycle ends; the batch is
\* remembered until the next cycle that fetches
WatchStoreFailRecorded ==
  /\ pc = "wc_store"
  /\ store' \in (IF cancelled THEN { store }
                 ELSE BulkUpsertPartial(store, batch))
  /\ batch' = << >>
  /\ pc' = "w_wait"
  /\ lastOp' = "WatchStoreFail"
  /\ scan' = NoScan
  /\ failed' = [taken |-> TRUE, batch |-> batch, store |-> store]
  /\ UNCHANGED << chain, doc, cancelled, statusDoc, currentURL, result,
                  benchmark, tick, published, ret, history, cancelSnap,
                  source, response, sent, subscribers, stopped >>

\* What the first page of the lastModified-ordered listing may hold when a
\* body may lack "lastModified": the field of the decoded model is then the
\* zero time.Time, and the model sorts last.
AnyWatchPages ==
  WatchPages \cup
    { << HuggingFaceModel("b", 1), HuggingFaceModel("a", ZeroTime) >> }

\* FetchModels(watchStartURL) succeeds on any such page: the scan collects
\* modelsToUpdate
WatchFetchAny ==
  /\ pc = "wc_fetch"
  /\ ~cancelled
  /\ \E page \in AnyWatchPages :
       /\ batch' = ModelsToUpdate(page, benchmark)
       /\ scan' = [taken |-> TRUE, page |-> page, benchmark |-> benchmark,
                    batch |-> batch', store |-> store, failed |-> failed]
  /\ failed' = NoFailed
  /\ benchmark' = ZeroTime
  /\ pc' = IF Len(batch') > 0 THEN "wc_store" ELSE "w_wait"
  /\ lastOp' = "WatchFetch"
  /\ UNCHANGED << persisted, cancelled, statusDoc, currentURL, result, tick,
                  published, ret, history, cancelSnap, source, response, sent,
                  subscribers, stopped >>

\* one run of the daemon into the watcher, over a source of one page that
\* holds two models or none
CycleInit ==
  \E c \in { << << HuggingFaceModel("a", 1), HuggingFaceModel("b", 1) >> >>,
              << << >> >> } : InitFor(c)

CycleNext ==
  \/ StartRead \/ StartReadFail \/ StartBackfillError
  \/ BackfillFresh \/ BackfillFreshFail
  \/ BackfillFetch \/ BackfillFetchFail
  \/ BackfillSleepDone \/ BackfillStore \/ BackfillStoreFail
  \/ BackfillCursor \/ BackfillCursorFail
  \/ BackfillMarkWatching \/ BackfillMarkWatchingFail \/ BackfillPublish
  \/ WatcherStart \/ WatchTick
  \/ WatchFind \/ WatchFindFail \/ WatchFetchAny \/ WatchFetchFail
  \/ WatchStore \/ WatchStoreFailRecorded
  \/ Tick

CycleSpec == CycleInit /\ [][CycleNext]_vars


\* ================================================================ claims
BackfillLoopPcs == { "bf_loop", "bf_store", "bf_cursor", "bf_sleep" }
WatchOps == { "WatcherStart", "WatchTick", "WatchStopped", "WatchFind",
              "WatchFindFail", "WatchFetch", "WatchFetchFail", "WatchStore",
              "WatchStoreFail" }
ModeChangeEvent == [Topic |-> EventModeChange, Data |-> StatusWatching]
HasId(s, i) == \E r \in s : r.id = i

\* the store an uninterrupted backfill over the chain leaves
RECURSIVE RunPages(_, _)
RunPages(s, k) ==
  IF k > Len(chain) THEN s ELSE RunPages(BulkUpsert(s, chain[k]), k + 1)
UninterruptedStore == RunPages({}, backfillStartURL)

\* C1: store-then-checkpoint.  In every reachable state (after crashes, store
\* failures and status-write failures) every page whose NextURL was written
\* as cursor had its bulk upsert succeed before, all its models are in the
\* store, and the persisted cursor is empty or the NextURL of such a page.
C1_StoreThenCheckpoint ==
  /\ checkpointed \subseteq storedEver
  /\ \A p \in checkpointed :
       \A i \in 1..Len(chain[p]) : HasId(store, chain[p][i].id)
  /\ doc.backfillCursor # EmptyURL =>
       \E p \in checkpointed : FetchModels(p).NextURL = doc.backfillCursor

C1_Witness ==
  /\ doc.backfillCursor # EmptyURL
  /\ runs = 2
  /\ lastOp = "BackfillCursor"
  /\ Len(chain[backfillStartURL]) > 0

C3_NoRedoneWork ==
  /\ lastOp = "BackfillFetch" => currentURL \notin checkpointed
  /\ (runs = 2 /\ lastOp = "BackfillFetch"
        /\ fetchedRun = { backfillStartURL }) => checkpointed = {}

\* C4: monotonic persisted mode.  Once WATCHING has been persisted, in this
\* run or an earlier one, the status document keeps mode WATCHING and the
\* write of NEEDS_BACKFILL is never executed.
C4_MonotonicMode ==
  wWrites > 0 =>
    /\ doc.status = StatusWatching
    /\ lastOp # "BackfillFresh"
    /\ pc \notin { "bf_init" }

C4_Witness ==
  /\ wWrites > 0
  /\ runs = 2
  /\ lastOp = "StartRead"

\* C5: WATCHING is written only after the loop fetched and processed a page
\* without NextURL (never after the loop was left on cancellation, and never
\* from a fetch or store error), and it is written once per completed
\* backfill.
C5_WatchingOnlyOnExhaustion ==
  /\ pc \in { "bf_done", "bf_publish" } =>
       /\ exhausted
       /\ currentURL = EmptyURL
       /\ Len(chain) \in (fetchedRun \cap storedRun)
  /\ lastOp = "BackfillMarkWatching" => exhausted
  /\ (cancelSnap.taken /\ cancelSnap.pc \in BackfillLoopPcs \cup { "bf_done" })
       => doc.status # StatusWatching
  /\ wWrites <= 1
  /\ pc = "bf_publish" => (wWrites = 1 /\ doc.status = StatusWatching)
  /\ lastOp \in { "BackfillCancelled", "BackfillFetchFail",
                  "BackfillStoreFail" } => doc.status # StatusWatching

C5_Witness ==
  /\ lastOp = "BackfillMarkWatching"
  /\ runs = 2
  /\ Len(chain) > 1

\* C6: once the mode is WATCHING for this run (Start read WATCHING, or this
\* run's transition has been made and published), no backfill operation is
\* executed for the rest of the run: every later step is a step of the watch
\* loop, the status document keeps mode WATCHING, and nothing is published
\* in a run that read WATCHING.
C6_NoBackfillOnceWatching ==
  /\ (statusDoc.status = StatusWatching \/ Len(published) > 0) =>
       /\ pc \in { "w_first", "returned" } \cup WatcherPcs
       /\ lastOp \in { "StartRead", "BackfillPublish" } \cup WatchOps
       /\ doc.status = StatusWatching
  /\ statusDoc.status = StatusWatching =>
       /\ published = << >>
       /\ lastOp # "BackfillPublish"
       /\ fetchedRun = {}
       /\ doc.backfillCursor = statusDoc.backfillCursor

C6_Witness ==
  /\ statusDoc.status = StatusWatching
  /\ lastOp = "WatchStore"
  /\ tick

\* C7: with no status document, GetStatusDocument yields NEEDS_BACKFILL and
\* an empty cursor, Start enters the backfill and the first page fetched is
\* the first page of the chain.
C7_AbsentDocMeansFreshBackfill ==
  /\ (lastOp = "StartRead" /\ ~doc.exists) =>
       /\ statusDoc = [status |-> StatusNeedsBackfill,
                       backfillCursor |-> EmptyURL]
       /\ pc = "bf_init"
  /\ (~doc.exists /\ pc = "bf_loop" /\ fetchedRun = {}) =>
       currentURL = backfillStartURL
  /\ (runs = 1 /\ fetchedRun # {}) => backfillStartURL \in fetchedRun
  /\ (runs = 1 /\ pc \in WatcherPcs) => wWrites = 1

C7_Witness ==
  /\ runs = 1
  /\ ~doc.exists
  /\ lastOp = "BackfillFetch"
  /\ currentURL = backfillStartURL

\* C8 as claimed: when the write of WATCHING fails at exhaustion, Start
\* returns an error, nothing is published and the watch loop is not entered.
C8_WatchingWriteFailureIsFatal ==
  (lastOp = "StartBackfillError" /\ exhausted) =>
    /\ pc = "returned"
    /\ ret = "error"
    /\ published = << >>

\* C8 as amended: when the write of WATCHING fails at exhaustion, nothing is
\* published, the watch loop is not entered and WATCHING is not persisted;
\* Start returns an error unless the context is cancelled by then, and nil
\* if it is.
C8_WatchingWriteFailureEndsStart ==
  /\ (pc = "bf_fail" /\ exhausted) =>
       (published = << >> /\ doc.status # StatusWatching)
  /\ (lastOp = "StartBackfillError" /\ exhausted) =>
       /\ pc = "returned"
       /\ ret = (IF cancelled THEN "nil" ELSE "error")
       /\ published = << >>
       /\ doc.status # StatusWatching

C8_Witness ==
  /\ lastOp = "StartBackfillError"
  /\ exhausted
  /\ ret = "error"
  /\ Len(chain) > 1

\* C9: the mode-change event is published once per backfill-to-watch
\* transition, carries WATCHING, is published only after WATCHING has been
\* persisted by this run, and never in a run that read WATCHING or that
\* left the backfill before exhaustion.
C9_PublishOncePerTransition ==
  /\ Len(published) <= 1
  /\ \A i \in 1..Len(published) : published[i] = ModeChangeEvent
  /\ Len(published) > 0 =>
       /\ doc.status = StatusWatching
       /\ statusDoc.status = StatusNeedsBackfill
       /\ exhausted
       /\ wWrites = 1
  /\ (statusDoc.status = StatusNeedsBackfill
        /\ pc \in { "w_first" } \cup WatcherPcs) => Len(published) = 1
  /\ (pc = "returned" /\ lastOp = "StartBackfillError") => published = << >>

C9_Witness ==
  /\ Len(published) = 1
  /\ lastOp = "WatchFind"

\* C10: when the context is cancelled while the backfill loop is running,
\* Start returns nil, WATCHING is not written, nothing is published, the
\* watch loop is not entered and the status document stays what it was when
\* the cancellation was signalled.
C10_CancelDuringBackfill ==
  (cancelSnap.taken /\ cancelSnap.pc \in BackfillLoopPcs) =>
    /\ doc = cancelSnap.doc
    /\ doc.status # StatusWatching
    /\ published = << >>
    /\ pc \in BackfillLoopPcs \cup { "bf_done", "bf_fail", "returned" }
    /\ lastOp \notin WatchOps \cup { "BackfillMarkWatching", "BackfillPublish" }
    /\ pc = "returned" => (ret = "nil" /\ lastOp = "StartBackfillError")

C10_Witness ==
  /\ pc = "returned"
  /\ cancelSnap.taken
  /\ cancelSnap.pc = "bf_cursor"
  /\ exhausted
  /\ ret = "nil"

\* C11: the models a watch cycle upserts are exactly the longest prefix of
\* the fetched page whose lastModified is strictly after the benchmark: the
\* scan stops at the first model that is not newer, and after the bulk upsert
\* the store differs from the store of the scan by that prefix only.
C11_ScanTakesLongestNewerPrefix ==
  scan.taken =>
    /\ \E n \in 0..Len(scan.page) :
         /\ scan.batch = SubSeq(scan.page, 1, n)
         /\ \A i \in 1..n : scan.page[i].lastModified > scan.benchmark
         /\ n < Len(scan.page) =>
              scan.page[n + 1].lastModified <= scan.benchmark
    /\ pc = "wc_store" => batch = scan.batch
    /\ lastOp = "WatchStore" =>
         store = { r \in scan.store :
                     \A i \in 1..Len(scan.batch) : scan.batch[i].id # r.id }
                 \cup { scan.batch[i] : i \in 1..Len(scan.batch) }

\* a cycle upserted the first model of a two-model page and stopped at the
\* second, which was not newer than the benchmark
C11_Witness ==
  /\ scan.taken
  /\ lastOp = "WatchStore"
  /\ Len(scan.page) = 2
  /\ Len(scan.batch) = 1
  /\ scan.page[2].lastModified <= scan.benchmark

\* the backfill loop of this run is over
BackfillEnded ==
  \/ pc \in { "bf_done", "bf_publish" }
  \/ pc = "bf_sleep" /\ currentURL = EmptyURL

\* C14: the backfill loop ends exactly when the page it fetched carries no
\* next-page reference: it is over only once the last page of the chain was
\* fetched and stored, a fetched page without models goes on to the
\* checkpoint and (having a next reference) to the next page, and the loop
\* never reads a page again once the last page was stored.
C14_EndsExactlyOnMissingNext ==
  /\ BackfillEnded => Len(chain) \in (fetchedRun \cap storedRun)
  /\ pc \in { "bf_loop", "bf_store" } =>
       /\ currentURL \in 1..Len(chain)
       /\ Len(chain) \notin storedRun
  /\ pc = "bf_cursor" =>
       /\ currentURL \in storedRun
       /\ result = FetchModels(currentURL)
  /\ lastOp \in { "BackfillCursor", "BackfillCursorFail" } =>
       (BackfillEnded \/ pc \in { "bf_fail", "w_first", "returned" }
                      \/ pc \in WatcherPcs)
         <=> (Len(chain) \in storedRun)

\* a first page without models, carrying a next reference, was checkpointed
\* and the loop is about to fetch the second page
C14_Witness ==
  /\ pc = "bf_loop"
  /\ lastOp = "BackfillCursor"
  /\ currentURL = 2
  /\ chain[1] = << >>
  /\ 1 \in fetchedRun

\* C15: whenever the persisted mode is WATCHING, every page of the chain
\* had its bulk upsert succeed and every model of every page is in the
\* store, whatever failed or restarted on the way.
C15_BackfillCompleteness ==
  doc.status = StatusWatching =>
    \A p \in 1..Len(chain) :
      /\ p \in storedEver
      /\ \A i \in 1..Len(chain[p]) : HasId(store, chain[p][i].id)

\* WATCHING was just persisted by a restarted run over two pages with models
C15_Witness ==
  /\ lastOp = "BackfillMarkWatching"
  /\ doc.status = StatusWatching
  /\ runs = 2
  /\ Len(chain) = 2
  /\ \A p \in 1..2 : chain[p] # << >>
  /\ HasId(store, "b")

\* C19: Start has returned exactly when the daemon is at "returned"; it
\* returned an error only for a failed initial status read (nothing fetched,
\* stored or published by the run) or for a failed WATCHING write after the
\* chain was exhausted; it returned nil only after cancellation.
C19_StartReturnsOnlyWhen ==
  /\ (ret = "none") <=> (pc # "returned")
  /\ ret = "error" =>
       \/ /\ lastOp = "StartReadFail"
          /\ fetchedRun = {}
          /\ storedRun = {}
          /\ published = << >>
       \/ /\ lastOp = "StartBackfillError"
          /\ exhausted
          /\ ~cancelled
          /\ published = << >>
  /\ ret = "nil" => cancelled
  /\ lastOp \in { "BackfillFetchFail", "BackfillStoreFail",
                  "BackfillCursorFail", "BackfillFreshFail", "WatchFindFail",
                  "WatchFetchFail", "WatchStoreFail" } => ret = "none"

\* a restarted daemon whose initial status read failed returned the error
C19_Witness ==
  /\ pc = "returned"
  /\ ret = "error"
  /\ lastOp = "StartReadFail"
  /\ runs = 2
  /\ store # {}

\* C20: the watch loop runs only while the persisted mode is WATCHING:
\* whatever status writes or checkpoints failed and whatever restarted, the
\* daemon is in the watcher only with WATCHING persisted and with every page
\* of the chain stored (Start never skips the backfill of a chain that is not
\* exhausted).
C20_WatchOnlyWhenWatching ==
  pc \in { "w_first" } \cup WatcherPcs =>
    /\ doc.status = StatusWatching
    /\ \A p \in 1..Len(chain) : p \in storedEver

\* C16: Publish never blocks and never fails, whatever the state of the
\* subscribers' channels: it is always enabled, a channel of the topic with
\* free space receives the event, a channel whose buffer is full keeps what it
\* held (the event is dropped for it), and channels of other topics are
\* untouched.
C16_PublishNeverBlocks ==
  /\ ENABLED BrokerPublish
  /\ sent.taken =>
       /\ Len(subscribers) = Len(sent.before)
       /\ \A i \in 1..Len(subscribers) :
            /\ subscribers[i].topic = sent.before[i].topic
            /\ subscribers[i].buf =
                 IF /\ sent.before[i].topic = sent.event.Topic
                    /\ Len(sent.before[i].buf) < ChanCap
                   THEN Append(sent.before[i].buf, sent.event)
                   ELSE sent.before[i].buf
            /\ Len(subscribers[i].buf) <= ChanCap

\* an event was published to a topic with a full channel and an empty one:
\* the full one kept its older event, the empty one holds the new event
C16_Witness ==
  /\ sent.taken
  /\ \E i, j \in 1..Len(subscribers) :
       /\ sent.before[i].topic = sent.event.Topic
       /\ sent.before[j].topic = sent.event.Topic
       /\ Len(sent.before[i].buf) = ChanCap
       /\ sent.before[j].buf = << >>
       /\ subscribers[i].buf # << sent.event >>
       /\ subscribers[j].buf = << sent.event >>

Reverse(ms) == [i \in 1..Len(ms) |-> ms[Len(ms) + 1 - i]]

\* C17: Upsert of a model leaves exactly that model under its id (nothing of
\* an older version survives), leaves the other ids alone, and upserting the
\* same model again changes nothing; BulkUpsert of a list with distinct ids
\* leaves what upserting its models one by one leaves, in either order.
C17_UpsertReplacesByKey ==
  /\ store \in Stores
  /\ lastOp = "StoreUpsert" =>
       LET m == scan.batch[1] IN
         /\ m \in store
         /\ \A r \in store : r.id = m.id => r = m
         /\ { r \in store : r.id # m.id } = { r \in scan.store : r.id # m.id }
         /\ Upsert(store, m) = store
  /\ lastOp = "StoreBulkUpsert" =>
       LET ms == scan.batch IN
         /\ store = IF Len(ms) = 1 THEN Upsert(scan.store, ms[1])
                    ELSE Upsert(Upsert(scan.store, ms[1]), ms[2])
         /\ store = IF Len(ms) = 1 THEN Upsert(scan.store, ms[1])
                    ELSE Upsert(Upsert(scan.store, ms[2]), ms[1])
         /\ store = BulkUpsert(scan.store, Reverse(ms))
         /\ BulkUpsert(store, ms) = store

\* an Upsert replaced the stored version of "a" by an older-dated one while
\* "b" stayed as it was
C17_Witness ==
  /\ lastOp = "StoreUpsert"
  /\ HuggingFaceModel("a", 3) \in scan.store
  /\ HuggingFaceModel("b", 1) \in scan.store
  /\ store = { HuggingFaceModel("a", 2), HuggingFaceModel("b", 1) }

\* C18: a step in which the query facade answers (GetModelByID or
\* SearchModels, at any point of the daemon's backfill or watch) leaves the
\* store, the status document, the daemon's position and locals and the
\* record of fetches unchanged: it reads only and triggers no fetch.
C18_QueriesAreReadOnly ==
  [][(response' # response /\ response'.kind # "none") =>
       UNCHANGED << store, doc, chain, pc, locals, fetchedRun, storedRun,
                    storedEver, checkpointed, published, subscribers >>]_vars

\* a lookup was answered with the stored model between the fetch of a
\* backfill page and its bulk upsert
C18_Witness ==
  /\ response.kind = "model"
  /\ response.model \in store
  /\ pc = "bf_store"
  /\ currentURL = 2

\* a watch cycle just ended with its fetch (and its store, if it had one)
\* successful, the source being as the fetch saw it
CycleSucceeded ==
  /\ scan.taken
  /\ \/ lastOp = "WatchStore"
     \/ lastOp = "WatchFetch" /\ scan.batch = << >>

\* C12: mirror convergence, in the form a finite run refutes: when a watch
\* cycle has fetched successfully and found nothing newer than the benchmark,
\* every model of the source is in the store in its latest version.  (From
\* such a state, if the source changes no more, every later cycle computes
\* the same benchmark from the same store, reads the same page and again
\* upserts nothing: a model missing here is missing for ever.)
C12_MirrorConvergence ==
  (scan.taken /\ lastOp = "WatchFetch" /\ scan.batch = << >>) =>
    \A r \in source : r \in store

\* C13: after a watch cycle whose fetch and store both succeeded, every
\* model of the source with lastModified strictly after the cycle's benchmark
\* is in the store, however many there are.
C13_WatchCycleCompleteness ==
  CycleSucceeded =>
    \A r \in scan.source : r.lastModified > scan.benchmark => r \in store

\* C21: the persisted status document, when present, has mode
\* NEEDS_BACKFILL or WATCHING, whichever write created it.
C21_PersistedModeIsValid ==
  doc.exists => doc.status \in { StatusNeedsBackfill, StatusWatching }

\* the page reference this run of the backfill started from
RunStartURL ==
  IF statusDoc.backfillCursor = EmptyURL
    THEN backfillStartURL ELSE statusDoc.backfillCursor

\* C22: while a backfill that started with an empty cursor is in its loop,
\* a status document with mode NEEDS_BACKFILL is persisted (it was written
\* before the first fetch); a backfill that started with a non-empty cursor
\* begins at that cursor and has written no status.
C22_InitialCheckpoint ==
  /\ (pc \in BackfillLoopPcs /\ statusDoc.backfillCursor = EmptyURL) =>
       (doc.exists /\ doc.status = StatusNeedsBackfill)
  /\ lastOp = "BackfillFresh" =>
       (doc.status = StatusNeedsBackfill /\ doc.backfillCursor = EmptyURL
          /\ fetchedRun = {})
  /\ lastOp = "BackfillResume" =>
       (currentURL = statusDoc.backfillCursor /\ fetchedRun = {}
          /\ doc.backfillCursor = statusDoc.backfillCursor
          /\ doc.status = statusDoc.status)

\* C23: a step in which a backfill fetch fails changes neither the store,
\* nor the status document, nor currentURL, and leads to the backoff sleep;
\* the sleep over, the loop is back at the fetch with the same currentURL,
\* and the fetch that follows is of that page.
C23_FetchErrorAdvancesNothing ==
  [][/\ (pc = "bf_loop" /\ lastOp' = "BackfillFetchFail") =>
          /\ UNCHANGED << store, doc, currentURL, storedRun, fetchedRun,
                          checkpointed >>
          /\ pc' = "bf_sleep"
     /\ (pc = "bf_sleep" /\ lastOp = "BackfillFetchFail"
           /\ pc' \notin { "bf_sleep", "start" }) =>
          /\ pc' = "bf_loop"
          /\ UNCHANGED << store, doc, currentURL >>
     /\ (pc = "bf_loop" /\ lastOp = "BackfillSleepDone"
           /\ lastOp' = "BackfillFetch") =>
          /\ result' = FetchModels(currentURL)
          /\ UNCHANGED currentURL]_vars

\* the fetch of the second page failed after the first page was stored and
\* the cursor persisted: the daemon sleeps, still on the second page
C23_Witness ==
  /\ lastOp = "BackfillFetchFail"
  /\ pc = "bf_sleep"
  /\ currentURL = 2
  /\ doc.backfillCursor = 2
  /\ 1 \in storedRun
  /\ 2 \notin fetchedRun

\* C24: a step in which a backfill bulk upsert fails changes neither the
\* status document nor currentURL, leaves the page not stored and leads to
\* the backoff sleep and from there back to the same page; a bulk upsert
\* that succeeds finds every earlier page of the run stored.
C24_StoreFailureKeepsCursor ==
  [][/\ (pc = "bf_store" /\ lastOp' = "BackfillStoreFail") =>
          /\ UNCHANGED << doc, currentURL, storedRun, checkpointed >>
          /\ currentURL \notin storedRun
          /\ pc' = "bf_sleep"
     /\ (pc = "bf_sleep" /\ lastOp = "BackfillStoreFail"
           /\ pc' \notin { "bf_sleep", "start" }) =>
          /\ pc' = "bf_loop"
          /\ UNCHANGED << store, doc, currentURL >>
     /\ (pc = "bf_store" /\ pc' = "bf_cursor") =>
          /\ storedRun' = storedRun \cup { currentURL }
          /\ \A q \in RunStartURL..(currentURL - 1) : q \in storedRun]_vars

\* the bulk upsert of the second page failed, some of it applied: the
\* persisted cursor and currentURL are still the second page
C24_Witness ==
  /\ lastOp = "BackfillStoreFail"
  /\ pc = "bf_sleep"
  /\ currentURL = 2
  /\ doc.backfillCursor = 2
  /\ 2 \in fetchedRun
  /\ 2 \notin storedRun
  /\ 1 \in storedRun

\* C25: after a failed bulk upsert the retry re-uses the page already
\* fetched: the backoff sleep over, the loop is back at the bulk upsert of
\* that page, not at a fetch.
C25_NoRefetchOnStoreFailure ==
  [][(pc = "bf_sleep" /\ lastOp = "BackfillStoreFail"
        /\ pc' \notin { "bf_sleep", "start" }) =>
       (pc' = "bf_store" /\ result' = FetchModels(currentURL))]_vars

\* C26, as claimed: once the backfill loop runs, with retried fetches and
\* stores succeeding at some attempt and without cancellation, the persisted
\* mode eventually becomes WATCHING.
C26_BackfillLiveness ==
  (pc = "bf_loop") ~> (doc.status = StatusWatching)

\* C26, amended: once the backfill loop runs, it eventually ends with the
\* chain exhausted, and then the persisted mode is WATCHING or the one
\* attempt to write WATCHING has failed and Start has returned the error.
C26_BackfillEndsThenWatchingOrError ==
  (pc = "bf_loop") ~>
    (exhausted /\ (doc.status = StatusWatching \/ ret = "error"))

\* a backfill over two pages, one of them with models, has ended and
\* WATCHING is persisted and published
C26_Witness ==
  /\ pc = "w_first"
  /\ doc.status = StatusWatching
  /\ Len(chain) = 2
  /\ store # {}
  /\ published = << ModeChangeEvent >>

\* C27: one malformed model does not abort its page: whenever the backfill
\* loop is about to fetch with a live context, the fetch can succeed (it
\* returns the well-formed models of the page), and a page that was fetched
\* holds the well-formed models of its body.
C27_MalformedRecordDoesNotAbortPage ==
  /\ (pc = "bf_loop" /\ ~cancelled) => ENABLED BackfillFetchRaw
  /\ pc \in { "bf_store", "bf_cursor" } =>
       result.Models = WellFormed(RawChain[currentURL])

\* C28: cancellation is honoured at every wait: a backoff sleep during which
\* the context was cancelled does not run to its end, and the watch loop's
\* wait can always be left by the cancellation.
C28_CancellationEndsEveryWait ==
  /\ lastOp = "BackfillSleepDone" =>
       ~(cancelSnap.taken /\ cancelSnap.pc = "bf_sleep")
  /\ (pc = "w_wait" /\ cancelled) => ENABLED WatchStopped
  /\ (pc = "bf_loop" /\ cancelled) => ENABLED BackfillCancelled

\* C29: a cancellation that arrived while the watch loop waited between
\* two cycles wins over the tick: no cycle is started by a tick after it.
C29_CancellationWinsOverTick ==
  lastOp = "WatchTick" => ~(cancelSnap.taken /\ cancelSnap.pc = "w_wait")

\* the pcs of a running watch cycle
CyclePcs == { "wc_find", "wc_fetch", "wc_store" }

\* C30: the watcher runs one cycle at once on entry, whichever way it was
\* entered, and afterwards one cycle per tick taken; a cycle starts in no
\* other way, a tick is taken only between cycles, a cycle ends in the wait,
\* and the wait is left for good only on cancellation.
C30_OneCycleOnEntryThenOnePerTick ==
  [][/\ (pc = "w_first" /\ pc' # "w_first") =>
          (pc' = "start" \/ (pc' = "wc_find" /\ ~tick'))
     /\ (pc # "wc_find" /\ pc' = "wc_find") =>
          (pc = "w_first" \/ (pc = "w_wait" /\ tick /\ ~tick'))
     /\ (pc \in WatcherPcs /\ tick /\ ~tick') =>
          (pc' = "start" \/ (pc = "w_wait" /\ pc' = "wc_find"))
     /\ (pc \in CyclePcs /\ pc' \notin CyclePcs) =>
          pc' \in { "w_wait", "start" }
     /\ (pc = "w_wait" /\ pc' = "returned") => cancelled]_vars

\* a daemon restarted with WATCHING persisted entered the watcher without a
\* backfill, ran its first cycle and has started a second one on a tick
C30_Witness ==
  /\ pc = "wc_find"
  /\ lastOp = "WatchTick"
  /\ runs = 2
  /\ statusDoc.status = StatusWatching
  /\ published = << >>
  /\ ~cancelled

\* C31: a watch cycle whose bulk upsert fails ends without retry, and no
\* record of its batch is lost: at the next cycle that fetches, every record
\* of the failed batch that is still in the first page is in the new batch
\* again or is in the store already, whether the failed write applied none or
\* only some of the replacements.
C31_FailedBatchRedetected ==
  /\ lastOp = "WatchStoreFail" => (pc = "w_wait" /\ failed.taken)
  /\ (scan.taken /\ lastOp = "WatchFetch" /\ scan.failed.taken) =>
       \A i \in 1..Len(scan.failed.batch) :
         (\E j \in 1..Len(scan.page) : scan.page[j] = scan.failed.batch[i]) =>
           \/ \E j \in 1..Len(scan.batch) : scan.batch[j] = scan.failed.batch[i]
           \/ scan.failed.batch[i] \in scan.store

\* C32: a step in which the benchmark lookup or the page fetch of a watch
\* cycle fails changes neither the store nor the status document, ends the
\* cycle in the watcher's wait with Start still running, and the wait after
\* it is left by a tick into a new cycle that starts with the benchmark
\* lookup (or by cancellation or the death of the process).
C32_CycleFailureSkipsToNextTick ==
  [][/\ (pc = "wc_find" /\ lastOp' = "WatchFindFail") =>
          /\ UNCHANGED << store, doc, published >>
          /\ pc' = "w_wait"
          /\ ret' = "none"
     /\ (pc = "wc_fetch" /\ lastOp' = "WatchFetchFail") =>
          /\ UNCHANGED << store, doc, published >>
          /\ pc' = "w_wait"
          /\ ret' = "none"
     /\ (pc = "w_wait" /\ lastOp \in { "WatchFindFail", "WatchFetchFail" }
           /\ pc' # "w_wait") =>
          \/ pc' = "wc_find" /\ tick /\ UNCHANGED << store, doc >>
          \/ pc' = "returned" /\ cancelled /\ ret' = "nil"
          \/ pc' = "start"
     /\ (pc = "wc_find" /\ lastOp = "WatchTick" /\ lastOp' = "WatchFind") =>
          (benchmark' = LatestKnownUpdate(store) /\ pc' = "wc_fetch")]_vars

\* the fetch of a cycle failed with models in the store and the daemon
\* waits, a tick pending
C32_Witness ==
  /\ lastOp = "WatchFetchFail"
  /\ pc = "w_wait"
  /\ tick
  /\ ~cancelled
  /\ store # {}
  /\ doc.status = StatusWatching
  /\ ret = "none"

\* C33: a watch cycle that finds the store empty takes the zero time as
\* benchmark, its batch is the whole fetched page whatever the lastModified of
\* its models, and after the bulk upsert every model of the page is in the
\* store.
C33_EmptyStoreTakesWholePage ==
  /\ (scan.taken /\ lastOp \in { "WatchFetch", "WatchStore" }
        /\ scan.store = {}) =>
       /\ scan.benchmark = ZeroTime
       /\ scan.batch = scan.page
  /\ (scan.taken /\ lastOp = "WatchStore" /\ scan.store = {}) =>
       \A i \in 1..Len(scan.page) : scan.page[i] \in store

\* C34: decoding normalizes the two flags.  "gated": true and "true" decode
\* to the same value, false and "false" to the same value, "auto" and
\* "manual" are accepted as they are, anything else is an error.  "private":
\* true and "true" decode to true, false and "false" to false, anything else
\* is an error.
C34_DecodingNormalizesFlags ==
  response.kind = "decoded" =>
    LET g == response.gated
        p == response.private
        Is(v, b, str) == \/ (v.type = "bool" /\ v.val = b)
                         \/ (v.type = "string" /\ v.val = str)
    IN /\ Is(g, TRUE, "true") => response.Gated = [ok |-> TRUE, val |-> "true"]
       /\ Is(g, FALSE, "false") =>
            response.Gated = [ok |-> TRUE, val |-> "false"]
       /\ (g.type = "string" /\ g.val \in { "auto", "manual" }) =>
            response.Gated = [ok |-> TRUE, val |-> g.val]
       /\ ~(\/ Is(g, TRUE, "true") \/ Is(g, FALSE, "false")
            \/ (g.type = "string" /\ g.val \in { "auto", "manual" })) =>
            ~response.Gated.ok
       /\ Is(p, TRUE, "true") => response.Private = [ok |-> TRUE, val |-> TRUE]
       /\ Is(p, FALSE, "false") =>
            response.Private = [ok |-> TRUE, val |-> FALSE]
       /\ ~(Is(p, TRUE, "true") \/ Is(p, FALSE, "false")) =>
            ~response.Private.ok

\* C35: a step that writes the mode (the initial NEEDS_BACKFILL write, the
\* WATCHING write) leaves the persisted cursor as it was, and a step that
\* writes the cursor leaves the persisted mode as it was; the status document
\* changes in no other step.
C35_StatusWritesFrame ==
  [][/\ (pc = "bf_init" /\ lastOp' = "BackfillFresh") =>
          /\ doc'.backfillCursor = doc.backfillCursor
          /\ doc'.status = StatusNeedsBackfill
     /\ (pc = "bf_done" /\ lastOp' = "BackfillMarkWatching") =>
          /\ doc'.backfillCursor = doc.backfillCursor
          /\ doc'.status = StatusWatching
     /\ (pc = "bf_cursor" /\ lastOp' = "BackfillCursor") =>
          /\ doc'.status = doc.status
          /\ doc'.backfillCursor = result.NextURL
     /\ doc' # doc =>
          lastOp' \in { "BackfillFresh", "BackfillMarkWatching",
                        "BackfillCursor" }]_vars

\* WATCHING was just written over a document that holds a cursor (the
\* checkpoint of the last page had failed): the cursor is still there
C35_Witness ==
  /\ lastOp = "BackfillMarkWatching"
  /\ doc.status = StatusWatching
  /\ doc.backfillCursor # EmptyURL
  /\ pc = "bf_publish"

\* C36: the step that publishes the transition finds the channel of every
\* listener of the mode-change topic empty and leaves exactly one event,
\* carrying WATCHING, in it (nothing is dropped), leaves the channels of other
\* topics alone, and happens at most once in a run; no other step puts an
\* event in a channel, whether or not the listeners read.
C36_ListenerGetsExactlyOneEvent ==
  [][/\ (pc = "bf_publish" /\ lastOp' = "BackfillPublish") =>
          /\ published = << >>
          /\ doc.status = StatusWatching
          /\ Len(subscribers') = Len(subscribers)
          /\ \A i \in 1..Len(subscribers) :
               /\ subscribers'[i].topic = subscribers[i].topic
               /\ subscribers[i].topic = EventModeChange =>
                    /\ subscribers[i].buf = << >>
                    /\ subscribers'[i].buf = << ModeChangeEvent >>
               /\ subscribers[i].topic # EventModeChange =>
                    subscribers'[i].buf = subscribers[i].buf
     /\ ~(pc = "bf_publish" /\ lastOp' = "BackfillPublish") =>
          \A i \in 1..Len(subscribers') :
            IF i <= Len(subscribers)
              THEN Len(subscribers'[i].buf) <= Len(subscribers[i].buf)
              ELSE subscribers'[i].buf = << >>]_vars

\* the transition was published to two listeners of the mode-change topic
\* and a listener of another topic; one of the two has read its event
C36_Witness ==
  /\ pc = "w_first"
  /\ published = << ModeChangeEvent >>
  /\ Len(subscribers) = 3
  /\ \E i, j, k \in 1..3 :
       /\ subscribers[i] = [topic |-> EventModeChange, buf |-> << >>]
       /\ subscribers[j] =
            [topic |-> EventModeChange, buf |-> << ModeChangeEvent >>]
       /\ subscribers[k] = [topic |-> "status:other", buf |-> << >>]

\* C37: in every step of any interleaving of Subscribe, Publish and
\* receives, a channel keeps its topic, gains at most one event and only the
\* event of a Publish to its topic, never holds more than ChanCap (one)
\* events, and an event it holds is never replaced by another; a new channel
\* starts empty.
C37_DeliveryPerTopicAtMostOnce ==
  [][/\ Len(subscribers') >= Len(subscribers)
     /\ \A i \in 1..Len(subscribers') :
          IF i <= Len(subscribers)
            THEN /\ subscribers'[i].topic = subscribers[i].topic
                 /\ Len(subscribers'[i].buf) <= ChanCap
                 /\ Len(subscribers'[i].buf) <= Len(subscribers[i].buf) + 1
                 /\ (subscribers[i].buf # << >> /\ subscribers'[i].buf # << >>)
                      => subscribers'[i].buf = subscribers[i].buf
                 /\ Len(subscribers'[i].buf) > Len(subscribers[i].buf) =>
                      /\ sent'.taken
                      /\ sent'.event.Topic = subscribers[i].topic
                      /\ subscribers'[i].buf =
                           Append(subscribers[i].buf, sent'.event)
            ELSE subscribers'[i].buf = << >>]_vars

\* a Publish found an empty channel of its topic, a channel of its topic
\* holding an event with other data, and an empty channel of the other
\* topic: the first took the event, the others are as they were
C37_Witness ==
  /\ sent.taken
  /\ Len(subscribers) = 3
  /\ \E i, j, k \in 1..3 :
       /\ sent.before[i] = [topic |-> sent.event.Topic, buf |-> << >>]
       /\ subscribers[i].buf = << sent.event >>
       /\ sent.before[j].topic = sent.event.Topic
       /\ Len(sent.before[j].buf) = 1
       /\ sent.before[j].buf[1].Data # sent.event.Data
       /\ subscribers[j] = sent.before[j]
       /\ sent.before[k].topic # sent.event.Topic
       /\ subscribers[k] = [topic |-> sent.before[k].topic, buf |-> << >>]

\* C38: while the daemon is in the watcher, no step lowers the newest
\* lastModified of the store; a bulk upsert of a cycle that succeeds raises
\* it, and whatever a cycle's bulk upsert writes, applied in full or in part,
\* is newer than the cycle's benchmark, which is the newest lastModified the
\* store had.
C38_BenchmarkNeverDecreases ==
  [][/\ pc \in WatcherPcs =>
          LatestKnownUpdate(store') >= LatestKnownUpdate(store)
     /\ pc = "wc_store" =>
          /\ scan.taken
          /\ batch # << >>
          /\ scan.benchmark = LatestKnownUpdate(store)
          /\ \A r \in store' \ store : r.lastModified > scan.benchmark
     /\ (pc = "wc_store" /\ lastOp' = "WatchStore") =>
          /\ LatestKnownUpdate(store') > LatestKnownUpdate(store)
          /\ \A i \in 1..Len(batch) : batch[i] \in store']_vars

\* a cycle whose benchmark was the lastModified of the backfilled models
\* stored a batch of two newer versions
C38_Witness ==
  /\ lastOp = "WatchStore"
  /\ scan.taken
  /\ scan.benchmark = 1
  /\ Len(scan.batch) = 2
  /\ LatestKnownUpdate(store) = 3
  /\ store = { HuggingFaceModel("a", 2), HuggingFaceModel("b", 3) }

\* C39: once Stop has been called, at whatever point of the run, no step
\* of the backfill fetches a page and no watch cycle is started, on entry of
\* the watcher or by a tick.
C39_StopEndsTheService ==
  [][stopped =>
       /\ ~(pc = "bf_loop" /\ lastOp' = "BackfillFetch")
       /\ ~(pc # "wc_find" /\ pc' = "wc_find")]_vars

====
